---- MODULE Spec2Model ----
(***************************************************************************)
(* The level-session state machine of the vocabulary quiz (src/src/App.tsx) *)
(* with its two collaborators, the word source (generateLevelWords,         *)
(* generateDistractors) and the record sink (sheetsService.saveRecord).     *)
(*                                                                          *)
(* React semantics used throughout: a handler reads the state values of the *)
(* render it was created in (the unprimed variables) and the updates it     *)
(* queues with setX are committed together when it returns (the primed      *)
(* variables).  A function called synchronously by a handler, such as       *)
(* finishLevel from handleAnswer, reads the same unprimed values.  The code *)
(* after an await runs as a separate step.                                  *)
(*                                                                          *)
(* Chinese string literals of the source are written as ASCII stand-ins.    *)
(***************************************************************************)
EXTENDS Integers, Sequences, FiniteSets, TLC

VARIABLES
    gameState,      \* App.tsx:45  'LOBBY' | 'PLAYING' | 'RESULT'
    playerId,       \* App.tsx:46
    currentLevel,   \* App.tsx:47
    words,          \* App.tsx:48  the prepared questions
    currentIndex,   \* App.tsx:49  0-based, as in the source
    userAnswers,    \* App.tsx:50
    isLoading,      \* App.tsx:52
    unlockedLevel,  \* App.tsx:53
    startCall,      \* the `level` argument of the startLevel call in flight, 0 if none
    session,        \* the session being played or shown on the result screen:
                    \* the `level` argument of the startLevel that loaded it and
                    \* unlockedLevel at that moment, the clock value its start
                    \* time was read from and the outcome of each word's
                    \* distractor call (App.tsx:56, 67-85)
    finished,       \* the locals of each finishLevel call of that session, in
                    \* call order (App.tsx:113-139)
    pendingSaves,   \* saveRecord promises not yet settled (App.tsx:141)
    startTime,      \* App.tsx:51
    now,            \* the clock Date.now() reads (App.tsx:84, 111)
    preparing       \* the Promise.all of the startLevel call in flight
                    \* (App.tsx:67-79), when its steps are told apart

vars == <<gameState, playerId, currentLevel, words, currentIndex, userAnswers,
          isLoading, unlockedLevel, startCall, session, finished, pendingSaves,
          startTime, now, preparing>>

----------------------------------------------------------------------------
(* Bounds of the model *)

\* the longest word list generateLevelWords returns
MaxGenerated == 1
\* clicks on an option after the last question of a session was answered
MaxExtraAnswers == 1
\* saveRecord promises of earlier sessions still unsettled when the words of
\* the next session arrive
MaxStaleSaves == 0
\* incorrect answers the modelled player gives in one session
MaxWrongAnswers == 1
\* the last value of the clock
MaxClock == 2

(* Program constants *)

LastLevel == 10
PassPercent == 90
MaxWords == 50

----------------------------------------------------------------------------
(* Data *)

\* App.tsx:29-42: only level 1 has built-in words
MOCK_WORDS ==
    [l \in {1} |->
      << [word |-> "abandon",  translation |-> "fangqi"],
         [word |-> "ability",  translation |-> "nengli"],
         [word |-> "abroad",   translation |-> "zaiguowai"],
         [word |-> "absolute", translation |-> "jueduide"],
         [word |-> "academic", translation |-> "xueshude"],
         [word |-> "accent",   translation |-> "kouyin"],
         [word |-> "accept",   translation |-> "jieshou"],
         [word |-> "access",   translation |-> "jiejin"],
         [word |-> "accident", translation |-> "shigu"],
         [word |-> "account",  translation |-> "zhanghu"] >>]

\* the word pairs the AI service may answer generateLevelWords with
GeneratedPool ==
    << [word |-> "barrier", translation |-> "zhangai"],
       [word |-> "benefit", translation |-> "liyi"],
       [word |-> "climate", translation |-> "qihou"],
       [word |-> "decline", translation |-> "xiajiang"] >>

Min(a, b) == IF a <= b THEN a ELSE b

\* Array.prototype.slice(0, n)
Slice(s, n) == SubSeq(s, 1, Min(Len(s), n))

Reverse(s) == [i \in 1..Len(s) |-> s[Len(s) + 1 - i]]

Range(s) == {s[i] : i \in DOMAIN s}

NoSession == [level |-> 0, unlockedAtStart |-> 0, startedAt |-> 0, outcomes |-> <<>>]

\* no Promise.all in flight
NotPreparing ==
    [active |-> FALSE, pairs |-> <<>>, flip |-> FALSE, built |-> <<>>,
     last |-> 0]

----------------------------------------------------------------------------
(* Word source *)

\* App.tsx:449: what generateDistractors returns when the AI call throws
FALLBACK_DISTRACTORS == <<"cuowu1", "cuowu2", "cuowu3">>

\* What the AI call inside generateDistractors (App.tsx:429-445) may do for a
\* word: throw, or answer with a JSON array of strings.  Nothing in the code
\* constrains the array: it may be short, repeat a string, or hold the
\* translation itself.
AiOutcomes == {"throws", "empty", "one", "repeated", "translation", "three"}

aiArray(outcome, translation) ==
    CASE outcome = "empty"       -> <<>>
      [] outcome = "one"         -> <<"ganrao1">>
      [] outcome = "repeated"    -> <<"ganrao1", "ganrao1", "ganrao2">>
      [] outcome = "translation" -> <<"ganrao1", translation, "ganrao2">>
      [] OTHER                   -> <<"ganrao1", "ganrao2", "ganrao3">>

\* generateDistractors whose catch block returns no strings
generateDistractors_emptyOnThrow(outcome, translation) ==
    IF outcome = "throws" THEN <<>> ELSE aiArray(outcome, translation)

\* App.tsx:427-451
generateDistractors(outcome, translation) ==
    IF outcome = "throws" THEN FALLBACK_DISTRACTORS
    ELSE aiArray(outcome, translation)

\* App.tsx:70: .sort(() => Math.random() - 0.5) leaves the array in some
\* permutation of itself; the model draws it from two, chosen by `flip`
randomSort(s, flip) == IF flip THEN Reverse(s) ELSE s

\* App.tsx:68-78: the map callback, for the pair at 0-based position idx
prepareWord(w, idx, outcome, flip) ==
    LET distractors == generateDistractors(outcome, w.translation)
        options == randomSort(Append(distractors, w.translation), flip)
    IN  [id            |-> idx,
         word          |-> w.word,
         translation   |-> w.translation,
         options       |-> options,
         correctAnswer |-> w.translation]

\* App.tsx:67-79: rawWords.slice(0, 50).map(...)
prepareWords(rawWords, outcomes, flip) ==
    LET pairs == Slice(rawWords, MaxWords)
    IN  [i \in 1..Len(pairs) |-> prepareWord(pairs[i], i - 1, outcomes[i], flip)]

\* the AI outcome per word of one startLevel: `common` for every word but the
\* k-th, which gets `special` (k = 0: no word does)
outcomesFor(rawWords, common, special, k) ==
    [i \in 1..Len(rawWords) |-> IF i = k THEN special ELSE common]

\* App.tsx:60-64: fetchLevelWords answers [] (part_000:15-23), so the words are
\* MOCK_WORDS[level] when the level has an entry and otherwise what
\* generateLevelWords returns
UsesMock(level) == level \in DOMAIN MOCK_WORDS

GeneratedLists == {Slice(GeneratedPool, n) : n \in 0..MaxGenerated}

rawWordsFor(level) ==
    IF UsesMock(level) THEN {MOCK_WORDS[level]} ELSE GeneratedLists

----------------------------------------------------------------------------
(* Scoring: the locals of finishLevel, App.tsx:113-115 *)

correctCountOf(answers) == Cardinality({i \in DOMAIN answers : answers[i].isCorrect})

\* accuracy >= 90 with accuracy = (correctCount / words.length) * 100; 0/0 is
\* NaN and NaN >= 90 is false
passedRule(correctCount, total) ==
    total > 0 /\ correctCount * 100 >= PassPercent * total

\* accuracy.toFixed(2), in hundredths of a percent
accuracyFixed2(correctCount, total) ==
    (correctCount * 10000 * 2 + total) \div (2 * total)

\* canAdvance without the frontier test: any passed level advances
canAdvance_anyLevel(level, unlocked) == unlocked < LastLevel

\* canAdvance without the cap
canAdvance_noCap(level, unlocked) == level = unlocked

\* App.tsx:124
canAdvance(level, unlocked) == level = unlocked /\ unlocked < LastLevel

\* utils.ts:8-13: formatDuration(ms), the "m:ss" string as its two numbers
formatDuration(ms) ==
    LET seconds == ms \div 1000
    IN  [minutes |-> seconds \div 60, seconds |-> seconds % 60]

\* App.tsx:129-139
makeRecord(correctCount, endTime, duration) ==
    [playerNo     |-> endTime,
     playerId     |-> playerId,
     startTime    |-> startTime,
     endTime      |-> endTime,
     duration     |-> formatDuration(duration),
     maxLevel     |-> currentLevel,
     totalWords   |-> Len(words),
     correctCount |-> correctCount,
     accuracy     |-> accuracyFixed2(correctCount, Len(words))]

\* App.tsx:93-108 calls finishLevel() before the queued setUserAnswers is
\* applied: finishLevel reads the userAnswers of the current render
answersSeenByFinish(prev, entry) == prev

----------------------------------------------------------------------------
Init ==
    /\ gameState = "LOBBY"
    /\ playerId = ""
    /\ currentLevel = 1
    /\ words = <<>>
    /\ currentIndex = 0
    /\ userAnswers = <<>>
    /\ isLoading = FALSE
    /\ unlockedLevel = 1
    /\ startCall = 0
    /\ session = NoSession
    /\ finished = <<>>
    /\ pendingSaves = 0
    /\ startTime = 0
    /\ now = 0
    /\ preparing = NotPreparing

\* the names the modelled player types into the id field
TypedNames == {"egg"}

\* App.tsx:164-167
SetPlayerId ==
    /\ gameState = "LOBBY" /\ ~isLoading
    /\ \E id \in TypedNames : id # playerId /\ playerId' = id
    /\ UNCHANGED <<gameState, currentLevel, words, currentIndex, userAnswers,
                   isLoading, unlockedLevel, startCall, session, finished,
                   pendingSaves>>
    /\ UNCHANGED <<startTime, preparing>>

\* App.tsx:56-57: startLevel up to its first await
startLevelCalled(level) ==
    /\ isLoading' = TRUE
    /\ startCall' = level

\* App.tsx:179-185: a button of the level grid
LobbyLevelButton ==
    /\ gameState = "LOBBY" /\ ~isLoading
    /\ \E level \in 1..LastLevel :
         /\ level <= unlockedLevel /\ playerId # ""
         /\ currentLevel' = level
         /\ startLevelCalled(level)
    /\ UNCHANGED <<gameState, playerId, words, currentIndex, userAnswers,
                   unlockedLevel, session, finished, pendingSaves>>
    /\ UNCHANGED <<startTime, preparing>>

\* App.tsx:199-201: the Start button
LobbyStartButton ==
    /\ gameState = "LOBBY" /\ ~isLoading
    /\ playerId # ""
    /\ startLevelCalled(unlockedLevel)
    /\ UNCHANGED <<gameState, playerId, currentLevel, words, currentIndex,
                   userAnswers, unlockedLevel, session, finished, pendingSaves>>
    /\ UNCHANGED <<startTime, preparing>>

\* App.tsx:60-90, success: the words are fetched and prepared, the session
\* state is reset and the finally block clears the loading flag.  `service` is
\* the set of AI outcomes the distractor calls of this start may have.
\* capturedStart when startLevel leaves the start time as it is
capturedStart_kept(t) == startTime

\* App.tsx:84: the start time startLevel stores, read from the clock at t
capturedStart(t) == t

\* freshAnswers when startLevel leaves the answers as they are
freshAnswers_kept == userAnswers

\* App.tsx:82-83: the position and the answers startLevel stores
freshPosition == 0
freshAnswers == <<>>

\* App.tsx:80-90: the prepared words are stored, the session state is reset,
\* the game screen is shown and the finally block clears the loading flag
sessionStarts(preparedWords, outcomes) ==
    /\ words' = preparedWords
    /\ currentIndex' = freshPosition
    /\ userAnswers' = freshAnswers
    /\ startTime' = capturedStart(now')
    /\ gameState' = "PLAYING"
    /\ isLoading' = FALSE
    /\ startCall' = 0
    /\ session' = [level |-> startCall, unlockedAtStart |-> unlockedLevel,
                   startedAt |-> now', outcomes |-> outcomes]
    /\ finished' = <<>>
    /\ UNCHANGED <<playerId, currentLevel, unlockedLevel, pendingSaves>>

startLevelSucceeds(service) ==
    /\ startCall # 0
    /\ ~preparing.active
    /\ pendingSaves <= MaxStaleSaves
    /\ \E rawWords \in rawWordsFor(startCall), flip \in BOOLEAN,
          common \in service, special \in service :
       \E k \in 0..Len(rawWords) :
         /\ (common = special) = (k = 0)
         /\ sessionStarts(
              prepareWords(rawWords,
                           outcomesFor(rawWords, common, special, k), flip),
              outcomesFor(rawWords, common, special, k))
    /\ UNCHANGED preparing

\* In the game as a whole every distractor call is taken to throw, so every
\* word gets the fallback options; PrepareSpec below draws every outcome.
StartLevelLoaded == startLevelSucceeds({"throws"})

\* App.tsx:63, 86-90: generateLevelWords throws (App.tsx:453-476 has no
\* try/catch); startLevel logs it and clears the loading flag
StartLevelFailed ==
    /\ startCall # 0
    /\ ~UsesMock(startCall)
    /\ isLoading' = FALSE
    /\ startCall' = 0
    /\ UNCHANGED <<gameState, playerId, currentLevel, words, currentIndex,
                   userAnswers, unlockedLevel, session, finished, pendingSaves>>
    /\ UNCHANGED <<startTime, preparing>>

----------------------------------------------------------------------------
(* Playing *)

\* App.tsx:211-213, 260-263: the option buttons exist while renderGame has a
\* current word
optionsShown ==
    gameState = "PLAYING" /\ ~isLoading /\ currentIndex < Len(words)

\* the options the modelled player clicks: the correct one and the first
\* incorrect one in display order
firstWrong(w) ==
    LET wrong == {i \in DOMAIN w.options : w.options[i] # w.correctAnswer}
    IN  IF wrong = {} THEN {}
        ELSE {w.options[CHOOSE i \in wrong : \A j \in wrong : i <= j]}

clickable(w) == (Range(w.options) \cap {w.correctAnswer}) \cup firstWrong(w)

\* App.tsx:110-141: finishLevel up to the await, run inside handleAnswer
finishLevel(answers) ==
    LET endTime == now'
        duration == endTime - startTime
        correctCount == correctCountOf(answers)
        passed == passedRule(correctCount, Len(words))
    IN  /\ unlockedLevel' =
             IF passed /\ canAdvance(currentLevel, unlockedLevel)
             THEN unlockedLevel + 1 ELSE unlockedLevel
        /\ finished' = Append(finished,
             [correctCount |-> correctCount, passed |-> passed,
              duration |-> duration,
              record |-> makeRecord(correctCount, endTime, duration)])
        /\ pendingSaves' = pendingSaves + 1

\* App.tsx:93-108
handleAnswer(selected) ==
    LET currentWord == words[currentIndex + 1]
        isCorrect == selected = currentWord.correctAnswer
        entry == [wordId |-> currentWord.id, selected |-> selected,
                  isCorrect |-> isCorrect]
    IN  /\ userAnswers' = Append(userAnswers, entry)
        /\ IF currentIndex < Len(words) - 1
           THEN /\ currentIndex' = currentIndex + 1
                /\ UNCHANGED <<unlockedLevel, finished, pendingSaves>>
           ELSE /\ finishLevel(answersSeenByFinish(userAnswers, entry))
                /\ UNCHANGED currentIndex

OptionButton ==
    /\ optionsShown
    /\ Len(userAnswers) < Len(words) + MaxExtraAnswers
    /\ \E selected \in clickable(words[currentIndex + 1]) :
         /\ \/ selected = words[currentIndex + 1].correctAnswer
            \/ Len(userAnswers) - correctCountOf(userAnswers) < MaxWrongAnswers
         /\ handleAnswer(selected)
    /\ UNCHANGED <<gameState, playerId, currentLevel, words, isLoading,
                   startCall, session, startTime, preparing>>

\* The record sink.  saveRecord (part_000:26-29) is the sink's interface, an
\* async function whose body is a placeholder that only logs; the model takes
\* its promise as that of any sink: it settles after some delay, resolved or
\* rejected.

\* App.tsx:141-142: saveRecord resolved, finishLevel resumes
SaveResolved ==
    /\ pendingSaves > 0
    /\ pendingSaves' = pendingSaves - 1
    /\ gameState' = "RESULT"
    /\ UNCHANGED <<playerId, currentLevel, words, currentIndex, userAnswers,
                   isLoading, unlockedLevel, startCall, session, finished>>
    /\ UNCHANGED <<startTime, preparing>>

\* App.tsx:141: saveRecord rejected; finishLevel has no try/catch and
\* handleAnswer does not await it, so line 142 is never run
SaveRejected ==
    /\ pendingSaves > 0
    /\ pendingSaves' = pendingSaves - 1
    /\ UNCHANGED <<gameState, playerId, currentLevel, words, currentIndex,
                   userAnswers, isLoading, unlockedLevel, startCall, session,
                   finished>>
    /\ UNCHANGED <<startTime, preparing>>

----------------------------------------------------------------------------
(* Result screen *)

resultShown == gameState = "RESULT" /\ ~isLoading

\* App.tsx:279-281: renderResult recomputes the score from the committed state
resultPassed == passedRule(correctCountOf(userAnswers), Len(words))

\* App.tsx:359-360
ResultLobbyButton ==
    /\ resultShown
    /\ gameState' = "LOBBY"
    /\ session' = NoSession
    /\ finished' = <<>>
    /\ UNCHANGED <<playerId, currentLevel, words, currentIndex, userAnswers,
                   isLoading, unlockedLevel, startCall, pendingSaves>>
    /\ UNCHANGED <<startTime, preparing>>

\* App.tsx:366-367
ResultRetryButton ==
    /\ resultShown
    /\ startLevelCalled(currentLevel)
    /\ UNCHANGED <<gameState, playerId, currentLevel, words, currentIndex,
                   userAnswers, unlockedLevel, session, finished, pendingSaves>>
    /\ UNCHANGED <<startTime, preparing>>

\* App.tsx:373-378
ResultNextButton ==
    /\ resultShown
    /\ resultPassed /\ currentLevel < LastLevel
    /\ currentLevel' = currentLevel + 1
    /\ startLevelCalled(currentLevel + 1)
    /\ UNCHANGED <<gameState, playerId, words, currentIndex, userAnswers,
                   unlockedLevel, session, finished, pendingSaves>>
    /\ UNCHANGED <<startTime, preparing>>

\* In Spec time stands still: every Date.now() reads the same value.
Next ==
    \/ UNCHANGED now /\ SetPlayerId
    \/ UNCHANGED now /\ LobbyLevelButton
    \/ UNCHANGED now /\ LobbyStartButton
    \/ UNCHANGED now /\ StartLevelLoaded
    \/ UNCHANGED now /\ StartLevelFailed
    \/ UNCHANGED now /\ OptionButton
    \/ UNCHANGED now /\ SaveResolved
    \/ UNCHANGED now /\ SaveRejected
    \/ UNCHANGED now /\ ResultLobbyButton
    \/ UNCHANGED now /\ ResultRetryButton
    \/ UNCHANGED now /\ ResultNextButton

Spec == Init /\ [][Next]_vars

\* The start of a level with its steps told apart: the words arrive, one
\* distractor request per word is in flight, the requests complete one by one
\* in any order, and when all have completed the session starts.  (In Spec
\* and PrepareSpec the whole of it is the one step startLevelSucceeds.)

\* App.tsx:60-68
WordsFetched ==
    /\ startCall # 0
    /\ ~preparing.active
    /\ \E rawWords \in rawWordsFor(startCall), flip \in BOOLEAN :
         preparing' = [active |-> TRUE, pairs |-> Slice(rawWords, MaxWords),
                       flip |-> flip, built |-> <<>>, last |-> 0]
    /\ UNCHANGED <<gameState, playerId, currentLevel, words, currentIndex,
                   userAnswers, isLoading, unlockedLevel, startCall, session,
                   finished, pendingSaves, startTime>>

\* mapIndex when the words are numbered as their requests complete
mapIndex_completionCount(i, built) == Cardinality(DOMAIN built)

\* App.tsx:68, 72: the index map() hands to the callback of the i-th pair
mapIndex(i, built) == i - 1

\* App.tsx:68-78: the distractor request of the i-th pair completes and its
\* callback returns the word
DistractorsArrive ==
    /\ preparing.active
    /\ \E i \in (1..Len(preparing.pairs)) \ DOMAIN preparing.built :
         preparing' = [preparing EXCEPT
             !.built = @ @@ (i :> prepareWord(preparing.pairs[i],
                                       mapIndex(i, preparing.built),
                                       "throws", preparing.flip)),
             !.last = i]
    /\ UNCHANGED <<gameState, playerId, currentLevel, words, currentIndex,
                   userAnswers, isLoading, unlockedLevel, startCall, session,
                   finished, pendingSaves, startTime>>

\* App.tsx:67, 79-90: Promise.all resolves to the array of the callbacks'
\* results, in the order of the input
AllPrepared ==
    /\ preparing.active
    /\ DOMAIN preparing.built = 1..Len(preparing.pairs)
    /\ sessionStarts([i \in 1..Len(preparing.pairs) |-> preparing.built[i]],
                     [i \in 1..Len(preparing.pairs) |-> "throws"])
    /\ preparing' = [preparing EXCEPT !.active = FALSE]

OrderNext ==
    \/ UNCHANGED now /\ SetPlayerId
    \/ UNCHANGED now /\ LobbyLevelButton
    \/ UNCHANGED now /\ LobbyStartButton
    \/ UNCHANGED now /\ WordsFetched
    \/ UNCHANGED now /\ DistractorsArrive
    \/ UNCHANGED now /\ AllPrepared

OrderSpec == Init /\ [][OrderNext]_vars

\* The game with a player who goes on answering while an option button can be
\* clicked and a sink that settles every saveRecord promise, one way or the
\* other.
Answering == UNCHANGED now /\ OptionButton

SinkResponds == UNCHANGED now /\ (SaveResolved \/ SaveRejected)

FairSpec == Spec /\ WF_vars(Answering) /\ WF_vars(SinkResponds)

\* The game with time passing.  The clock is read only where Date.now() is
\* called (App.tsx:84, 111), so the time that passed since the last reading is
\* added there: any amount before the answer that ends the level, at least
\* one unit over the loading of a level.
clockAdvances(least) ==
    \E d \in least..1 : now' = now + d /\ now' <= MaxClock

\* App.tsx:103-107: the answer in hand makes handleAnswer call finishLevel
endsLevel == ~(currentIndex < Len(words) - 1)

TimeNext ==
    \/ UNCHANGED now /\ SetPlayerId
    \/ UNCHANGED now /\ LobbyLevelButton
    \/ UNCHANGED now /\ LobbyStartButton
    \/ clockAdvances(1) /\ StartLevelLoaded
    \/ UNCHANGED now /\ StartLevelFailed
    \/ (IF endsLevel THEN clockAdvances(0) ELSE UNCHANGED now) /\ OptionButton
    \/ UNCHANGED now /\ SaveResolved
    \/ UNCHANGED now /\ SaveRejected
    \/ UNCHANGED now /\ ResultLobbyButton
    \/ UNCHANGED now /\ ResultRetryButton
    \/ UNCHANGED now /\ ResultNextButton

TimeSpec == Init /\ [][TimeNext]_vars

\* The preparation step on its own: the player starts a level from the lobby
\* and the questions are prepared, with every outcome of the distractor
\* service.
StartLevelPrepared == startLevelSucceeds(AiOutcomes)

NextPrepare ==
    \/ UNCHANGED now /\ SetPlayerId
    \/ UNCHANGED now /\ LobbyLevelButton
    \/ UNCHANGED now /\ LobbyStartButton
    \/ UNCHANGED now /\ StartLevelPrepared

PrepareSpec == Init /\ [][NextPrepare]_vars

----------------------------------------------------------------------------
(* Properties *)

inSession == session # NoSession

\* every question of the session has an answer recorded
allAnswered == inSession /\ Len(words) > 0 /\ Len(userAnswers) >= Len(words)

\* the correct answers among the answers to the session's questions
correctOverall == correctCountOf(SubSeq(userAnswers, 1, Len(words)))

passedOverall == correctOverall * 100 >= PassPercent * Len(words)

\* C1: while a session is played or shown, the number of recorded answers
\* equals the position, and the position does not exceed the number of
\* questions (so both equal it once the last question is answered).
C1_AnswersEqualPosition ==
    inSession =>
        /\ Len(userAnswers) = currentIndex
        /\ currentIndex <= Len(words)

\* C2: the pass decision finishLevel takes when the session completes is
\* "at least 90% of all the session's answers are correct".
C2_PassedIffNinetyPercentOfAll ==
    (allAnswered /\ finished # <<>>) =>
        (finished[1].passed <=> passedOverall)

\* C3: the record handed to the sink when the session completes carries the
\* number of questions, the number of correct answers over all of them, and
\* the accuracy computed from the two.
C3_RecordCountsEveryAnswer ==
    (allAnswered /\ finished # <<>>) =>
        /\ finished[1].record.totalWords = Len(words)
        /\ finished[1].record.correctCount = correctOverall
        /\ finished[1].record.accuracy = accuracyFixed2(correctOverall, Len(words))

\* C4: when the result of a session of the frontier level (below the last
\* level) is shown and at least 90% of its answers were correct,
\* unlockedLevel is exactly one more than when the session started.
C4_FrontierPassAdvancesByOne ==
    ( /\ allAnswered
      /\ gameState = "RESULT"
      /\ session.level = session.unlockedAtStart
      /\ session.unlockedAtStart < LastLevel
      /\ passedOverall )
    => unlockedLevel = session.unlockedAtStart + 1

\* C5: a session of a level strictly below the frontier leaves unlockedLevel
\* as it was when the session started, whatever the answers.
C5_ReplayLeavesFrontier ==
    (inSession /\ session.level < session.unlockedAtStart)
    => unlockedLevel = session.unlockedAtStart

\* C5 witness: a replayed level, below the frontier, whose result is shown and
\* which finishLevel judged passed
C5_ReplayPassedShown ==
    /\ inSession /\ session.level < session.unlockedAtStart
    /\ gameState = "RESULT"
    /\ \E i \in DOMAIN finished : finished[i].passed

\* C6: unlockedLevel stays in 1..10, and a step changes it only by +1, only
\* in a finishLevel call that judged the session passed, with the level
\* played being the frontier and the frontier below 10.
C6_FrontierMonotoneCapped ==
    /\ [](unlockedLevel \in 1..LastLevel)
    /\ [][ unlockedLevel' # unlockedLevel =>
             /\ unlockedLevel' = unlockedLevel + 1
             /\ Len(finished') = Len(finished) + 1
             /\ finished'[Len(finished')].passed
             /\ currentLevel = unlockedLevel
             /\ unlockedLevel < LastLevel ]_vars

\* C6 witness: level 10 played with everything unlocked, judged passed, and
\* the frontier still 10
C6_LastLevelPassedAtCap ==
    /\ inSession /\ session.level = LastLevel /\ currentLevel = LastLevel
    /\ unlockedLevel = LastLevel
    /\ \E i \in DOMAIN finished : finished[i].passed

\* C7: once every question of the session has an answer, nothing more is
\* recorded and the session is not completed a second time.
C7_NoAnswerAfterLastQuestion ==
    inSession =>
        /\ Len(userAnswers) <= Len(words)
        /\ Len(finished) <= 1

\* C8: once the save of a completed session has settled, resolved or
\* rejected, the result is shown.
C8_ResultShownWhenSaveSettled ==
    (allAnswered /\ finished # <<>> /\ pendingSaves = 0)
    => gameState = "RESULT"

\* C9: the game is never in PLAYING with no question.
C9_NeverPlayingWithoutQuestions ==
    gameState = "PLAYING" => Len(words) > 0

\* C10: every prepared question's options hold the correct answer exactly
\* once and no string twice.
C10_OptionsHoldAnswerOnceNoDuplicates ==
    \A i \in DOMAIN words :
        LET o == words[i].options IN
        /\ Cardinality({j \in DOMAIN o : o[j] = words[i].correctAnswer}) = 1
        /\ \A j, k \in DOMAIN o : o[j] = o[k] => j = k

\* C11: a session hands at most one record to the sink, and it hands none
\* before every question of the session has an answer.
C11_OneRecordPerCompletedSession ==
    inSession =>
        /\ Len(finished) <= 1
        /\ (finished # <<>> => Len(userAnswers) >= Len(words))

\* C12: every startLevel that succeeds, from the lobby, by Retry or by Next,
\* leaves a fresh session: position 0, no answers, a start time newly read
\* from the clock, and the game screen.
C12_StartYieldsFreshSession ==
    [][(startCall # 0 /\ session' # session) =>
            /\ currentIndex' = 0
            /\ userAnswers' = <<>>
            /\ startTime' = now' /\ startTime' # startTime
            /\ gameState' = "PLAYING"
            /\ ~isLoading']_vars

\* a later session has just started, after one that was answered
C12_LaterSessionStarted ==
    /\ gameState = "PLAYING" /\ ~isLoading
    /\ session.startedAt >= 2
    /\ userAnswers = <<>> /\ currentIndex = 0

\* C13: a distractor call that throws does not fail the start of the level:
\* the word still gets its question, its options are the correct answer and
\* exactly three placeholder strings, and the game screen is reached.
C13_DistractorFailureKeepsQuestion ==
    inSession =>
        /\ gameState = "PLAYING" /\ ~isLoading
        /\ Len(words) = Len(session.outcomes)
        /\ \A i \in DOMAIN words :
             session.outcomes[i] = "throws" =>
               LET o == words[i].options IN
               /\ words[i].correctAnswer \in Range(o)
               /\ Len(o) = 4
               /\ Cardinality({j \in DOMAIN o : o[j] # words[i].correctAnswer}) = 3

\* a level started although the distractor call of one word threw and that
\* of another answered
C13_StartedAfterOneFailure ==
    /\ gameState = "PLAYING"
    /\ \E i, j \in DOMAIN session.outcomes :
         session.outcomes[i] = "throws" /\ session.outcomes[j] = "three"

\* C14: in every record the duration is the end time minus the start time and
\* is not negative, and the start time is the one read by the startLevel of
\* the session the record belongs to, not that of an earlier session or the
\* initial 0.
C14_DurationFromSessionStart ==
    inSession =>
        \A k \in DOMAIN finished :
            LET f == finished[k] IN
            /\ f.duration = f.record.endTime - f.record.startTime
            /\ f.duration >= 0
            /\ f.record.duration = formatDuration(f.duration)
            /\ f.record.startTime = session.startedAt
            /\ f.record.startTime # 0

\* a session that started later than the first one has handed over its record
C14_LaterSessionRecorded ==
    inSession /\ finished # <<>> /\ session.startedAt >= 2

\* C15: whenever the game or the result screen is shown, the level of the
\* session is not above unlockedLevel.
C15_PlayedLevelIsUnlocked ==
    (inSession /\ gameState \in {"PLAYING", "RESULT"}) =>
        session.level <= unlockedLevel

\* C16: while a level is played, currentLevel is the level whose words the
\* last successful startLevel loaded.
C16_CurrentLevelIsLoadedLevel ==
    (inSession /\ gameState = "PLAYING") => currentLevel = session.level

\* C17: a startLevel that fails leaves what the player sees as it was before
\* the attempt: a result screen that stays visible still shows the level its
\* session completed with.
C17_FailedStartLeavesResultLevel ==
    (gameState = "RESULT" /\ ~isLoading /\ inSession /\ finished # <<>>) =>
        currentLevel = finished[Len(finished)].record.maxLevel

\* C18: the k-th recorded answer is the answer to the k-th question: it
\* carries that question's id and is marked correct exactly when the
\* selected option is that question's correct answer; no question is
\* recorded twice.
C18_AnswersFollowQuestions ==
    inSession =>
        \A k \in DOMAIN userAnswers :
            /\ k \in DOMAIN words
            /\ userAnswers[k].wordId = words[k].id
            /\ userAnswers[k].isCorrect =
                   (userAnswers[k].selected = words[k].correctAnswer)

\* C19: under a player who keeps answering and a sink that responds, a
\* session whose questions are all answered leads to the result screen.
C19_AnsweredSessionReachesResult ==
    (allAnswered /\ gameState = "PLAYING") ~> (gameState = "RESULT")

\* C20: in whatever order the distractor requests of one startLevel complete,
\* the prepared words keep the order of the input and the k-th has id k - 1,
\* and the game screen is not entered while a request is outstanding.
C20_PreparedOrderIsInputOrder ==
    /\ preparing.active => gameState # "PLAYING"
    /\ \A i \in DOMAIN preparing.built :
         /\ preparing.built[i].id = i - 1
         /\ preparing.built[i].word = preparing.pairs[i].word
    /\ gameState = "PLAYING" =>
         /\ DOMAIN preparing.built = 1..Len(preparing.pairs)
         /\ Len(words) = Len(preparing.pairs)
         /\ \A i \in DOMAIN words :
              /\ words[i].id = i - 1
              /\ words[i].word = preparing.pairs[i].word
              /\ words[i].correctAnswer = preparing.pairs[i].translation
              /\ words[i].correctAnswer \in Range(words[i].options)
         /\ \A i, j \in DOMAIN words : words[i].id = words[j].id => i = j

\* a level started whose first word's request was the last to complete
C20_FirstWordCompletedLast ==
    /\ gameState = "PLAYING"
    /\ Len(words) > 1
    /\ preparing.last = 1

====
